---- MODULE Spec2Model ----
(***************************************************************************)
(* Library book management: books, members and borrow records kept in a    *)
(* relational store and driven by the commands of main.py.  A command is   *)
(* run by a client (one CLI process); the store is shared by the clients.  *)
(* Strings are sequences of one-character strings so that strip(), lower() *)
(* and the e-mail pattern are computed, not assumed.                       *)
(***************************************************************************)
EXTENDS Integers, Sequences, FiniteSets, TLC

\* ---------------------------------------------------------------- bounds
MaxBooks == 2
MaxMembers == 2
MaxRecords == 2
MaxCopies == 2
MaxDay == 1

\* ------------------------------------------------------------- constants
\* return_date is nullable; NoDate stands for Python's None / SQL NULL
NoDate == -1
\* the value of a reference that holds no object (find_by_id returned None)
NoId == 0

Procs == {1, 2}
Days == 0..MaxDay
BookIds == 1..MaxBooks
MemberIds == 1..MaxMembers
RecordIds == 1..MaxRecords

\* -------------------------------------------------------------- strings
RECURSIVE LStrip(_)
LStrip(s) == IF s # <<>> /\ Head(s) = " " THEN LStrip(Tail(s)) ELSE s

RECURSIVE RStrip(_)
RStrip(s) ==
    IF s # <<>> /\ s[Len(s)] = " " THEN RStrip(SubSeq(s, 1, Len(s) - 1)) ELSE s

\* str.strip()
Strip(s) == RStrip(LStrip(s))

LowerChar(c) ==
    CASE c = "A" -> "a"
      [] c = "B" -> "b"
      [] c = "C" -> "c"
      [] OTHER -> c

\* str.lower()
Lower(s) == [i \in 1..Len(s) |-> LowerChar(s[i])]

\* every character of s[from..to] is not '@', and the slice is not empty
NoAt(s, from, to) == from <= to /\ \A i \in from..to : s[i] # "@"

\* re.match(r"[^@]+@[^@]+\.[^@]+", value): the pattern is matched from the
\* start of value; nothing anchors it at the end
EmailMatch(s) ==
    \E i \in 1..Len(s) :
        /\ NoAt(s, 1, i)
        /\ i + 1 <= Len(s) /\ s[i + 1] = "@"
        /\ \E j \in (i + 2)..Len(s) :
               /\ NoAt(s, i + 2, j)
               /\ j + 1 <= Len(s) /\ s[j + 1] = "."
               /\ \E k \in (j + 2)..Len(s) : NoAt(s, j + 2, k)

\* Book.validate_not_empty / Member.validate_name: "not value or not value.strip()"
IsBlank(s) == s = <<>> \/ Strip(s) = <<>>

\* Member.validate_email: the value is accepted
EmailValid(s) == s # <<>> /\ EmailMatch(s)

\* variant of the stored value without lower()
NormalizeEmailCased(s) == Strip(s)

\* Member.validate_email: the value that is stored
NormalizeEmail(s) == Strip(Lower(s))

\* variant of the validator that accepts a book without copies (< 0 for < 1)
TotalCopiesValidZero(n) == ~(n < 0)

\* Book.validate_total_copies: the value is accepted
TotalCopiesValid(n) == ~(n < 1)

\* ---------------------------------------------------------------- inputs
\* what is typed at the prompts of "books add": the accepted values, and for
\* each field a value its validator refuses
BookInputs ==
    { [title |-> <<" ", "t">>, author |-> <<"o">>, total_copies |-> n] :
          n \in 0..MaxCopies }
    \cup { [title |-> <<" ">>, author |-> <<"o">>, total_copies |-> 1],
           [title |-> <<" ", "t">>, author |-> <<>>, total_copies |-> 1] }

EmailInputs ==
    { <<"a", "@", "b", ".", "c">>,
      <<"A", "@", "B", ".", "c">>,
      <<"a", "@", "b", ".", "c", " ">>,
      <<"a", "@", "b", ".", "c", "@">>,
      <<"B", "A", "D">>,
      <<>> }

\* what is typed at the prompts of "members add"
MemberInputs ==
    { [name |-> <<"n", " ">>, email |-> e] : e \in EmailInputs }
    \cup { [name |-> <<" ">>, email |-> <<"a", "@", "b", ".", "c">>],
           [name |-> <<>>, email |-> <<"A", "@", "B", ".", "c">>] }

\* ----------------------------------------------------------------- state
VARIABLES
    books,          \* table books:   id -> [title, author, total_copies, available]
    members,        \* table members: id -> [name, email]
    records,        \* table borrow_records: id -> [book_id, member_id, borrow_date, return_date]
    nextBookId,     \* primary-key generators of the three tables
    nextMemberId,
    nextRecordId,
    today,          \* date.today()
    pc,             \* per client: the position inside the running command
    session,        \* per client: the objects its command has loaded
    out             \* the outcome of the command the last step ended (what it
                    \* echoed, and for a not-found message which command);
                    \* "none" when the step ended no command

vars == <<books, members, records, nextBookId, nextMemberId, nextRecordId,
          today, pc, session, out>>

store == <<books, members, records>>
keys == <<nextBookId, nextMemberId, nextRecordId>>

\* a client that runs no command holds no object
NoSession ==
    [member_id |-> NoId, book_id |-> NoId, record_id |-> NoId,
     borrow_date |-> NoDate, loaded |-> {}]

\* --------------------------------------------------------------- queries
\* variant of the query of Book.available_copies without its return_date filter
AllIn(recs, b) == { r \in DOMAIN recs : recs[r].book_id = b }

\* session.query(BorrowRecord).filter(book_id == b, return_date IS NULL),
\* on the table recs
ActiveIn(recs, b) ==
    { r \in DOMAIN recs : recs[r].book_id = b /\ recs[r].return_date = NoDate }

\* the same query on the stored table
ActiveOfBook(b) == ActiveIn(records, b)

\* Member.borrow_records
RecordsOfMember(m) == { r \in DOMAIN records : records[r].member_id = m }

\* variant of Book.borrow_records for a relationship without cascade
RecordsOfBookNone(b) == {}

\* Book.borrow_records
RecordsOfBook(b) == { r \in DOMAIN records : records[r].book_id = b }

\* Member.active_borrows
ActiveOfMember(m) ==
    { r \in RecordsOfMember(m) : records[r].return_date = NoDate }

\* Book.available_copies, with the table recs as the store's borrow_records
CopiesLeft(recs, b) == books[b].total_copies - Cardinality(ActiveIn(recs, b))

\* Book.available_copies
AvailableCopies(b) == CopiesLeft(records, b)

\* variant of find_by_attribute that ends in .first(): the match with the
\* smallest id only
FindByAttributeFirst(table, kwargs) ==
    LET all == { x \in DOMAIN table :
                   \A k \in DOMAIN kwargs : table[x][k] = kwargs[k] }
    IN  { x \in all : \A y \in all : x <= y }

\* find_by_attribute: session.query(cls).filter_by(**kwargs).all(), the rows
\* of table whose columns equal the given values; kwargs maps column names
\* to values and is compared with what is stored, no validator runs on it
FindByAttribute(table, kwargs) ==
    { x \in DOMAIN table : \A k \in DOMAIN kwargs : table[x][k] = kwargs[k] }

\* the function f without the keys in S
Without(f, S) == [x \in DOMAIN f \ S |-> f[x]]

\* the function f with key k bound to v
With(f, k, v) == [x \in DOMAIN f \cup {k} |-> IF x = k THEN v ELSE f[x]]

\* variant of BorrowRecord.create that also closes the open records of the
\* same member and book
LendAnew(recs, id, book_id, member_id, day) ==
    With([r \in DOMAIN recs |->
              IF /\ recs[r].book_id = book_id /\ recs[r].member_id = member_id
                 /\ recs[r].return_date = NoDate
              THEN [recs[r] EXCEPT !.return_date = day]
              ELSE recs[r]],
         id, [book_id |-> book_id, member_id |-> member_id,
              borrow_date |-> day, return_date |-> NoDate])

\* BorrowRecord.create: the table after the insert of record id, made on day
Lend(recs, id, book_id, member_id, day) ==
    With(recs, id, [book_id |-> book_id, member_id |-> member_id,
                    borrow_date |-> day, return_date |-> NoDate])

\* variant of the update of lines 333-334 that is not restricted to the
\* record: every open record gets the return_date
GiveBackAll(recs, id, day) ==
    [r \in DOMAIN recs |->
        IF recs[r].return_date = NoDate
        THEN [recs[r] EXCEPT !.return_date = day]
        ELSE recs[r]]

\* borrow return, lines 333-334: the table after record id got its return_date
GiveBack(recs, id, day) == [recs EXCEPT ![id].return_date = day]

\* --------------------------------------------------------------- initial
Init ==
    /\ books = << >>
    /\ members = << >>
    /\ records = << >>
    /\ nextBookId = 1
    /\ nextMemberId = 1
    /\ nextRecordId = 1
    /\ today \in Days
    /\ pc = [p \in Procs |-> "idle"]
    /\ session = [p \in Procs |-> NoSession]
    /\ out = "none"

\* the command of client p ends with outcome o and its session is closed
Finish(p, o) ==
    /\ out' = o
    /\ pc' = [pc EXCEPT ![p] = "idle"]
    /\ session' = [session EXCEPT ![p] = NoSession]

\* ----------------------------------------------------------------- books
\* books add: Book.create runs the validators, then inserts and commits
AddBook(p, title, author, total_copies) ==
    /\ pc[p] = "idle"
    /\ IF IsBlank(title) \/ IsBlank(author) \/ ~TotalCopiesValid(total_copies)
       THEN /\ Finish(p, "invalid_book")
            /\ UNCHANGED <<store, keys>>
       ELSE /\ nextBookId <= MaxBooks
            /\ books' = With(books, nextBookId,
                             [title |-> Strip(title), author |-> Strip(author),
                              total_copies |-> total_copies,
                              available |-> TRUE])
            /\ nextBookId' = nextBookId + 1
            /\ Finish(p, "book_added")
            /\ UNCHANGED <<members, records, nextMemberId, nextRecordId>>
    /\ UNCHANGED today

\* --------------------------------------------------------------- members
\* the UNIQUE constraint of members.email compares the stored values
EmailTaken(e) == \E m \in DOMAIN members : members[m].email = e

\* members add: Member.create runs the validators, then inserts and commits;
\* the store rejects a second row with the same email
AddMember(p, name, email) ==
    /\ pc[p] = "idle"
    /\ IF IsBlank(name) \/ ~EmailValid(email)
       THEN /\ Finish(p, "invalid_member")
            /\ UNCHANGED <<store, keys>>
       ELSE IF EmailTaken(NormalizeEmail(email))
       THEN /\ Finish(p, "integrity_error")
            /\ UNCHANGED <<store, keys>>
       ELSE /\ nextMemberId <= MaxMembers
            /\ members' = With(members, nextMemberId,
                               [name |-> Strip(name),
                                email |-> NormalizeEmail(email)])
            /\ nextMemberId' = nextMemberId + 1
            /\ Finish(p, "member_added")
            /\ UNCHANGED <<books, records, nextBookId, nextRecordId>>
    /\ UNCHANGED today

\* ---------------------------------------------------------------- borrow
\* variant of the test of line 284 that takes every id for a stored member
MemberNotFoundNever(member_id) == FALSE

\* Member.find_by_id returned None: "if not member"
MemberNotFound(member_id) == member_id \notin DOMAIN members

\* Book.find_by_id returned None: "if not book"
BookNotFound(book_id) == book_id \notin DOMAIN books

\* variant of borrow book, lines 281-287, with a limit of one open borrow
\* for each member
BorrowFindMemberLimited(p, member_id) ==
    /\ pc[p] = "idle"
    /\ IF MemberNotFound(member_id)
       THEN Finish(p, "member_not_found")
       ELSE IF ActiveOfMember(member_id) # {}
       THEN Finish(p, "member_at_limit")
       ELSE /\ pc' = [pc EXCEPT ![p] = "b_book"]
            /\ session' = [session EXCEPT ![p].member_id = member_id]
            /\ out' = "none"
    /\ UNCHANGED <<store, keys, today>>

\* borrow book, lines 281-287: the member is looked up first
BorrowFindMember(p, member_id) ==
    /\ pc[p] = "idle"
    /\ IF MemberNotFound(member_id)
       THEN Finish(p, "member_not_found")
       ELSE /\ pc' = [pc EXCEPT ![p] = "b_book"]
            /\ session' = [session EXCEPT ![p].member_id = member_id]
            /\ out' = "none"
    /\ UNCHANGED <<store, keys, today>>

\* variant of the test of line 298 that still lends at zero (< for <=)
NoCopyAvailableStrict(available) == available < 0

\* borrow book, line 298: the test made on the value read from the store
NoCopyAvailable(available) == available <= 0

\* borrow book, lines 289-301: then the book is looked up and its
\* available_copies, read in a session of its own, is tested
BorrowFindBook(p, book_id) ==
    /\ pc[p] = "b_book"
    /\ IF BookNotFound(book_id)
       THEN Finish(p, "book_not_found")
       ELSE IF NoCopyAvailable(AvailableCopies(book_id))
       THEN Finish(p, "unavailable")
       ELSE /\ pc' = [pc EXCEPT ![p] = "b_create"]
            /\ session' = [session EXCEPT ![p].book_id = book_id]
            /\ out' = "none"
    /\ UNCHANGED <<store, keys, today>>

\* variant of borrow book, lines 303-311, that keeps the stored 'available'
\* flag of the book up to date with the copies that are left
BorrowCreateFlagging(p, enforced) ==
    /\ pc[p] = "b_create"
    /\ LET parents == /\ session[p].book_id \in DOMAIN books
                      /\ session[p].member_id \in DOMAIN members
       IN  IF ~parents /\ enforced
           THEN /\ Finish(p, "integrity_error")
                /\ UNCHANGED <<books, records, nextRecordId>>
           ELSE /\ nextRecordId <= MaxRecords
                /\ records' = Lend(records, nextRecordId, session[p].book_id,
                                   session[p].member_id, today)
                /\ books' = [books EXCEPT ![session[p].book_id].available =
                                 CopiesLeft(records', session[p].book_id) > 0]
                /\ nextRecordId' = nextRecordId + 1
                /\ Finish(p, "borrowed")
    /\ UNCHANGED <<members, nextBookId, nextMemberId, today>>

\* borrow book, lines 303-311: BorrowRecord.create inserts and commits; the
\* insert of a row whose parent is gone is refused only by a store that
\* enforces the foreign keys (enforced: what the configured database does)
BorrowCreate(p, enforced) ==
    /\ pc[p] = "b_create"
    /\ LET parents == /\ session[p].book_id \in DOMAIN books
                      /\ session[p].member_id \in DOMAIN members
       IN  IF ~parents /\ enforced
           THEN /\ Finish(p, "integrity_error")
                /\ UNCHANGED <<records, nextRecordId>>
           ELSE /\ nextRecordId <= MaxRecords
                /\ records' = Lend(records, nextRecordId, session[p].book_id,
                                   session[p].member_id, today)
                /\ nextRecordId' = nextRecordId + 1
                /\ Finish(p, "borrowed")
    /\ UNCHANGED <<books, members, nextBookId, nextMemberId, today>>

\* ---------------------------------------------------------------- return
\* variant of the test of line 326 that never sees a record as returned
IsReturnedNever(return_date) == FALSE

\* borrow return, line 326: the record counts as returned
IsReturned(return_date) == return_date # NoDate

\* borrow return, lines 318-329: the record is looked up and must be open
ReturnFind(p, record_id) ==
    /\ pc[p] = "idle"
    /\ IF record_id \notin DOMAIN records
       THEN Finish(p, "record_not_found")
       ELSE IF IsReturned(records[record_id].return_date)
       THEN Finish(p, "already_returned")
       ELSE /\ pc' = [pc EXCEPT ![p] = "r_set"]
            /\ session' = [session EXCEPT ![p].record_id = record_id,
                               ![p].borrow_date = records[record_id].borrow_date]
            /\ out' = "none"
    /\ UNCHANGED <<store, keys, today>>

\* variant of the validator that accepts every date
ReturnDateAny(value, borrow_date) == TRUE

\* BorrowRecord.validate_return_date: the value is accepted
ReturnDateValid(value, borrow_date) ==
    ~(value # NoDate /\ borrow_date # NoDate /\ value < borrow_date)

\* borrow return, lines 331-341: return_date = date.today() passes the
\* validator and is committed; the UPDATE of a row that is gone fails
ReturnSet(p) ==
    /\ pc[p] = "r_set"
    /\ IF ~ReturnDateValid(today, session[p].borrow_date)
       THEN /\ Finish(p, "invalid_return_date")
            /\ UNCHANGED records
       ELSE IF session[p].record_id \notin DOMAIN records
       THEN /\ Finish(p, "stale_data_error")
            /\ UNCHANGED records
       ELSE /\ records' = GiveBack(records, session[p].record_id, today)
            /\ Finish(p, "returned")
    /\ UNCHANGED <<books, members, keys, today>>

\* ---------------------------------------------------------- delete a book
\* variant of the guard of lines 72 and 198 that tolerates one active borrow
HasActiveMoreThanOne(count) == count > 1

\* books delete, line 72, members delete, line 198: the guard on the number
\* of active borrows
HasActive(count) == count > 0

\* books delete, lines 57-75: lookup and guard
DeleteBookGuard(p, book_id) ==
    /\ pc[p] = "idle"
    /\ IF BookNotFound(book_id)
       THEN Finish(p, "delete_book_not_found")
       ELSE IF HasActive(Cardinality(ActiveOfBook(book_id)))
       THEN Finish(p, "book_in_use")
       ELSE /\ pc' = [pc EXCEPT ![p] = "db_confirm"]
            /\ session' = [session EXCEPT ![p].book_id = book_id]
            /\ out' = "none"
    /\ UNCHANGED <<store, keys, today>>

\* books delete, lines 77-83: on confirmation Book.delete removes the book;
\* the delete-orphan cascade loads its borrow_records then and removes them
DeleteBookConfirm(p, confirm) ==
    /\ pc[p] = "db_confirm"
    /\ IF confirm
       THEN /\ records' = Without(records, RecordsOfBook(session[p].book_id))
            /\ books' = Without(books, {session[p].book_id})
            /\ Finish(p, "book_deleted")
       ELSE /\ Finish(p, "cancelled")
            /\ UNCHANGED <<books, records>>
    /\ UNCHANGED <<members, keys, today>>

\* -------------------------------------------------------- delete a member
\* members delete, lines 186-201: lookup and guard; member.active_borrows
\* loads member.borrow_records into the session
DeleteMemberGuard(p, member_id) ==
    /\ pc[p] = "idle"
    /\ IF MemberNotFound(member_id)
       THEN Finish(p, "delete_member_not_found")
       ELSE IF HasActive(Cardinality(ActiveOfMember(member_id)))
       THEN Finish(p, "member_in_use")
       ELSE /\ pc' = [pc EXCEPT ![p] = "dm_confirm"]
            /\ session' = [session EXCEPT ![p].member_id = member_id,
                               ![p].loaded = RecordsOfMember(member_id)]
            /\ out' = "none"
    /\ UNCHANGED <<store, keys, today>>

\* members delete, lines 203-209: on confirmation Member.delete removes the
\* member and the borrow_records the session has loaded; a record added since
\* keeps its member_id, which a store that enforces foreign keys refuses: the
\* exception is not caught and the transaction is lost
DeleteMemberConfirm(p, confirm, enforced) ==
    /\ pc[p] = "dm_confirm"
    /\ IF ~confirm
       THEN /\ Finish(p, "cancelled")
            /\ UNCHANGED <<members, records>>
       ELSE IF enforced /\ ~(RecordsOfMember(session[p].member_id)
                                  \subseteq session[p].loaded)
       THEN /\ Finish(p, "crash")
            /\ UNCHANGED <<members, records>>
       ELSE /\ records' = Without(records, session[p].loaded)
            /\ members' = Without(members, {session[p].member_id})
            /\ Finish(p, "member_deleted")
    /\ UNCHANGED <<books, keys, today>>

\* -------------------------------------------------------- delete a record
\* variant of BorrowRecord.delete with the guard the parents' deletes have:
\* an ACTIVE record is left in place
DeleteRecordGuarded(p, record_id) ==
    /\ pc[p] = "idle"
    /\ record_id \in DOMAIN records
    /\ IF records[record_id].return_date = NoDate
       THEN /\ Finish(p, "record_in_use")
            /\ UNCHANGED records
       ELSE /\ records' = Without(records, {record_id})
            /\ Finish(p, "record_deleted")
    /\ UNCHANGED <<books, members, keys, today>>

\* BorrowRecord.delete, called on a stored record: session.delete(self) and
\* commit; the relationships of BorrowRecord carry no cascade, so the book
\* and the member stay
DeleteRecord(p, record_id) ==
    /\ pc[p] = "idle"
    /\ record_id \in DOMAIN records
    /\ records' = Without(records, {record_id})
    /\ Finish(p, "record_deleted")
    /\ UNCHANGED <<books, members, keys, today>>

\* ----------------------------------------------------------------- clock
\* date.today() follows the system clock, which moves on and can be set back
ClockChange(d) ==
    /\ d # today
    /\ today' = d
    /\ UNCHANGED <<store, keys, pc, session, out>>

\* ------------------------------------------------------------ next state
\* one step of the command client p runs
Step(p) ==
    \/ \E i \in BookInputs : AddBook(p, i.title, i.author, i.total_copies)
    \/ \E i \in MemberInputs : AddMember(p, i.name, i.email)
    \/ \E m \in MemberIds : BorrowFindMember(p, m)
    \/ \E b \in BookIds : BorrowFindBook(p, b)
    \/ \E f \in BOOLEAN : BorrowCreate(p, f)
    \/ \E r \in RecordIds : ReturnFind(p, r)
    \/ ReturnSet(p)
    \/ \E b \in BookIds : DeleteBookGuard(p, b)
    \/ \E c \in BOOLEAN : DeleteBookConfirm(p, c)
    \/ \E m \in MemberIds : DeleteMemberGuard(p, m)
    \/ \E c \in BOOLEAN : \E f \in BOOLEAN : DeleteMemberConfirm(p, c, f)

\* commands run one at a time, each to completion
Next ==
    \/ \E d \in Days : ClockChange(d)
    \/ Step(1)

Spec == Init /\ [][Next]_vars

\* the commands, and the administrative cleanup of borrow records through
\* BorrowRecord.delete, which no command of main.py calls
NextAdmin ==
    \/ Next
    \/ \E r \in RecordIds : DeleteRecord(1, r)

SpecAdmin == Init /\ [][NextAdmin]_vars

\* a library in service: one book with a single copy and one member are
\* stored, the other ids have been used and deleted, nothing is lent
InitConc ==
    /\ books = [b \in {1} |->
                   [title |-> <<"t">>, author |-> <<"o">>, total_copies |-> 1,
                    available |-> TRUE]]
    /\ members = [m \in {1} |->
                     [name |-> <<"n">>, email |-> <<"a", "@", "b", ".", "c">>]]
    /\ records = << >>
    /\ nextBookId = MaxBooks + 1
    /\ nextMemberId = MaxMembers + 1
    /\ nextRecordId = 1
    /\ today \in Days
    /\ pc = [p \in Procs |-> "idle"]
    /\ session = [p \in Procs |-> NoSession]
    /\ out = "none"

\* the commands of two clients interleave at their reads of the store
NextConc ==
    \/ \E d \in Days : ClockChange(d)
    \/ \E p \in Procs : Step(p)

SpecConc == InitConc /\ [][NextConc]_vars

\* ================================================================ claims

\* C1: for every stored book, after any sequence of commands,
\* 0 <= available_copies <= total_copies; equivalently the number of ACTIVE
\* records of the book never exceeds its total_copies.
AvailableWithinTotal ==
    \A b \in DOMAIN books :
        /\ 0 <= AvailableCopies(b)
        /\ AvailableCopies(b) <= books[b].total_copies
        /\ Cardinality({ r \in DOMAIN records :
                           records[r].book_id = b /\ records[r].return_date = NoDate })
               <= books[b].total_copies

\* every copy of a book with the largest number of copies is lent
AllCopiesLent ==
    \E b \in DOMAIN books :
        /\ books[b].total_copies = MaxCopies
        /\ AvailableCopies(b) = 0
        /\ out = "borrowed"

\* C2: when two borrow commands for the same book interleave while one copy
\* remains, at most one succeeds: available_copies never becomes negative.
LastCopyLentOnce ==
    \A b \in DOMAIN books : AvailableCopies(b) >= 0

\* C3: a borrow by an existing member of an existing book whose
\* available_copies is 0 ends with the unavailable message and the set of
\* records is unchanged.
UnavailableBorrowRejected ==
    [][\A b \in DOMAIN books :
          AvailableCopies(b) = 0
              => \A p \in Procs :
                     BorrowFindBook(p, b)
                         => (out' = "unavailable" /\ pc'[p] = "idle"
                             /\ records' = records)
      ]_vars

\* a borrow has just been refused while a stored book had no copy left
BorrowRefused ==
    /\ out = "unavailable"
    /\ \E b \in DOMAIN books : AvailableCopies(b) = 0

\* C4: a return of a record whose return_date is set ends with the
\* already-returned message and changes no stored value; it is never
\* reported as a success.
SecondReturnRejected ==
    [][\A r \in DOMAIN records :
          records[r].return_date # NoDate
              => \A p \in Procs :
                     ReturnFind(p, r)
                         => (out' = "already_returned" /\ pc'[p] = "idle"
                             /\ UNCHANGED store)
      ]_vars

\* a return has just been refused on a record that is returned
ReturnRefused ==
    /\ out = "already_returned"
    /\ \E r \in DOMAIN records : records[r].return_date # NoDate

\* C5: the delete of a book or member that has an ACTIVE record ends with
\* the in-use message and removes nothing; no step removes a book or a
\* member that has an ACTIVE record.
DeleteInUseRejected ==
    [][/\ \A b \in DOMAIN books :
              (\E r \in DOMAIN records :
                   records[r].book_id = b /\ records[r].return_date = NoDate)
                  => /\ b \in DOMAIN books'
                     /\ \A p \in Procs :
                            DeleteBookGuard(p, b)
                                => (out' = "book_in_use" /\ pc'[p] = "idle"
                                    /\ UNCHANGED store)
       /\ \A m \in DOMAIN members :
              (\E r \in DOMAIN records :
                   records[r].member_id = m /\ records[r].return_date = NoDate)
                  => /\ m \in DOMAIN members'
                     /\ \A p \in Procs :
                            DeleteMemberGuard(p, m)
                                => (out' = "member_in_use" /\ pc'[p] = "idle"
                                    /\ UNCHANGED store)
       /\ \A r \in DOMAIN records :
              records[r].return_date = NoDate => r \in DOMAIN records'
      ]_vars

\* a delete has just been refused and the parent and its ACTIVE record remain
DeleteRefused ==
    \/ /\ out = "book_in_use"
       /\ \E r \in DOMAIN records :
              records[r].return_date = NoDate /\ records[r].book_id \in DOMAIN books
    \/ /\ out = "member_in_use"
       /\ \E r \in DOMAIN records :
              records[r].return_date = NoDate
                  /\ records[r].member_id \in DOMAIN members

\* C6: a delete of a book or member without ACTIVE records passes the guard
\* and, the prompt confirmed, removes the entity and every record that
\* references it (all of them returned) and nothing else, so that no record
\* references the deleted id; a declined prompt cancels the command before
\* the delete is made.
ConfirmedDeleteCascades ==
    [][\A p \in Procs :
          /\ \A b \in DOMAIN books :
                 (pc[p] = "idle"
                      /\ \A r \in DOMAIN records :
                             records[r].book_id = b => records[r].return_date # NoDate)
                     => (DeleteBookGuard(p, b) => pc'[p] = "db_confirm")
          /\ \A m \in DOMAIN members :
                 (pc[p] = "idle"
                      /\ \A r \in DOMAIN records :
                             records[r].member_id = m => records[r].return_date # NoDate)
                     => (DeleteMemberGuard(p, m) => pc'[p] = "dm_confirm")
          /\ pc[p] = "db_confirm"
                 => LET b == session[p].book_id
                        gone == { r \in DOMAIN records : records[r].book_id = b }
                    IN  /\ DeleteBookConfirm(p, TRUE)
                               => /\ out' = "book_deleted"
                                  /\ b \notin DOMAIN books'
                                  /\ \A r \in DOMAIN records' : records'[r].book_id # b
                                  /\ \A r \in gone : records[r].return_date # NoDate
                                  /\ records' = [r \in DOMAIN records \ gone |-> records[r]]
                                  /\ books' = [x \in DOMAIN books \ {b} |-> books[x]]
                                  /\ members' = members
                        /\ DeleteBookConfirm(p, FALSE)
                               => (out' = "cancelled" /\ UNCHANGED store)
          /\ pc[p] = "dm_confirm"
                 => LET m == session[p].member_id
                        gone == { r \in DOMAIN records : records[r].member_id = m }
                    IN  /\ (\E f \in BOOLEAN : DeleteMemberConfirm(p, TRUE, f))
                               => /\ out' = "member_deleted"
                                  /\ m \notin DOMAIN members'
                                  /\ \A r \in DOMAIN records' : records'[r].member_id # m
                                  /\ \A r \in gone : records[r].return_date # NoDate
                                  /\ records' = [r \in DOMAIN records \ gone |-> records[r]]
                                  /\ members' = [x \in DOMAIN members \ {m} |-> members[x]]
                                  /\ books' = books
                        /\ (\E f \in BOOLEAN : DeleteMemberConfirm(p, FALSE, f))
                               => (out' = "cancelled" /\ UNCHANGED store)
      ]_vars

\* the only book ever stored has just been deleted and the only record ever
\* made, a record of that book, went with it; its member is still stored
CascadedDelete ==
    /\ out = "book_deleted"
    /\ nextBookId = 2 /\ DOMAIN books = {}
    /\ nextRecordId = 2 /\ DOMAIN records = {}
    /\ nextMemberId = 2 /\ DOMAIN members = {1}

\* C7: the creation of a member whose email equals, case-insensitively, the
\* email of a stored member fails (with the store's integrity error when the
\* name is valid) and adds no member; no two stored members share an email.
UniqueEmail ==
    /\ [](\A m1 \in DOMAIN members : \A m2 \in DOMAIN members :
              m1 # m2 => Lower(members[m1].email) # Lower(members[m2].email))
    /\ [][/\ out' \in {"integrity_error", "invalid_member"} => members' = members
          /\ (out' \in {"member_added", "invalid_member"} /\ DOMAIN members # {})
                 => LET taken == { Lower(members[m].email) : m \in DOMAIN members }
                    IN  \A i \in MemberInputs :
                            Lower(i.email) \in taken
                                => \A p \in Procs :
                                       AddMember(p, i.name, i.email)
                                           => /\ IsBlank(i.name)
                                              /\ out' = "invalid_member"
          ]_vars

\* a member creation has just been refused by the store's unique constraint
DuplicateRefused ==
    /\ out = "integrity_error"
    /\ DOMAIN members # {}

\* C8: a borrow lowers available_copies of its book by one and the return of
\* the record it created restores the value read before the borrow; with one
\* copy the value goes 1, 0, 1 and a borrow in between is refused.
BorrowReturnRoundTrip ==
    /\ [](\A b \in DOMAIN books : \A m \in DOMAIN members :
              (~NoCopyAvailable(AvailableCopies(b)) /\ nextRecordId <= MaxRecords)
                  => LET lent == Lend(records, nextRecordId, b, m, today)
                     IN  /\ CopiesLeft(lent, b) = AvailableCopies(b) - 1
                         /\ books[b].total_copies = 1
                                => NoCopyAvailable(CopiesLeft(lent, b))
                         /\ \A d \in Days :
                                ReturnDateValid(d, today)
                                    => CopiesLeft(GiveBack(lent, nextRecordId, d), b)
                                           = AvailableCopies(b))
    /\ [][\A p \in Procs :
              /\ (pc[p] = "b_create" /\ out' = "borrowed")
                     => LET b == session[p].book_id
                        IN  /\ books' = books
                            /\ CopiesLeft(records', b) = AvailableCopies(b) - 1
              /\ (pc[p] = "r_set" /\ out' = "returned")
                     => LET b == records[session[p].record_id].book_id
                        IN  /\ books' = books
                            /\ CopiesLeft(records', b) = AvailableCopies(b) + 1
              /\ (pc[p] = "b_book" /\ out' = "unavailable")
                     => records' = records
          ]_vars

\* a book was lent and has just come back: all its copies are available again
CameBack ==
    /\ out = "returned"
    /\ \E r \in DOMAIN records :
           /\ records[r].return_date # NoDate
           /\ records[r].book_id \in DOMAIN books
           /\ AvailableCopies(records[r].book_id)
                  = books[records[r].book_id].total_copies

\* C9: a record is created ACTIVE, and once its return_date is set no step
\* changes it or clears it while the record exists.
ReturnDateImmutable ==
    [][\A r \in DOMAIN records' :
          IF r \in DOMAIN records
          THEN records[r].return_date # NoDate
                   => records'[r].return_date = records[r].return_date
          ELSE records'[r].return_date = NoDate
      ]_vars

\* a second return was tried on a later or earlier day than the first one
RetriedAnotherDay ==
    /\ out = "already_returned"
    /\ \E r \in DOMAIN records :
           records[r].return_date # NoDate /\ records[r].return_date # today

\* C10: every record with a return_date has return_date >= borrow_date; a
\* return on a day before the borrow_date fails in the validator and the
\* record stays ACTIVE.
ReturnNotBeforeBorrow ==
    /\ [](\A r \in DOMAIN records :
              records[r].return_date # NoDate
                  => records[r].return_date >= records[r].borrow_date)
    /\ [][\A p \in Procs :
              (pc[p] = "r_set" /\ pc'[p] = "idle"
                   /\ session[p].record_id \in DOMAIN records
                   /\ today < records[session[p].record_id].borrow_date)
                  => /\ out' = "invalid_return_date"
                     /\ records' = records
                     /\ records'[session[p].record_id].return_date = NoDate
          ]_vars

\* a return has just been refused because the clock is before the borrow_date
EarlyReturnRefused ==
    /\ out = "invalid_return_date"
    /\ \E r \in DOMAIN records :
           records[r].return_date = NoDate /\ records[r].borrow_date > today

\* C11: in every state reached by commands run one after the other, every
\* record's book_id is the id of a stored book and its member_id the id of a
\* stored member.
ReferentialIntegrity ==
    \A r \in DOMAIN records :
        /\ records[r].book_id \in DOMAIN books
        /\ records[r].member_id \in DOMAIN members

\* a parent has just been deleted with one of the two records ever made, and
\* the other record and its parents are stored
ParentGoneRecordKept ==
    /\ out \in {"book_deleted", "member_deleted"}
    /\ nextRecordId = 3
    /\ Cardinality(DOMAIN records) = 1

\* C12: under any interleaving of a delete of a book (or member) with a
\* borrow of that book (or by that member), the delete never removes a record
\* that is ACTIVE at the moment of the deletion, and the borrow never leaves
\* an ACTIVE record whose parent has been deleted.
GuardedDeleteAtomic ==
    /\ [](\A r \in DOMAIN records :
              records[r].return_date = NoDate
                  => /\ records[r].book_id \in DOMAIN books
                     /\ records[r].member_id \in DOMAIN members)
    /\ [][\A r \in DOMAIN records :
              records[r].return_date = NoDate => r \in DOMAIN records'
          ]_vars

\* C13: a borrow given a member id that resolves to no member, or a book id
\* that resolves to no book, ends with the not-found message of that entity,
\* creates no record and leaves the store unchanged.
BorrowNotFoundRejected ==
    [][\A p \in Procs :
          /\ \A m \in MemberIds \ DOMAIN members :
                 BorrowFindMember(p, m)
                     => /\ out' = "member_not_found"
                        /\ pc'[p] = "idle"
                        /\ UNCHANGED <<store, keys>>
          /\ \A b \in BookIds \ DOMAIN books :
                 BorrowFindBook(p, b)
                     => /\ out' = "book_not_found"
                        /\ pc'[p] = "idle"
                        /\ UNCHANGED <<store, keys>>
          /\ out' \in {"member_not_found", "book_not_found"}
                 => UNCHANGED <<store, keys>>
      ]_vars

\* a borrow by the stored member has just been refused for a book id that
\* resolves to no book, while another book is stored
BorrowOfAbsentBookRefused ==
    /\ out = "book_not_found"
    /\ DOMAIN members # {}
    /\ DOMAIN books # {} /\ DOMAIN books # BookIds
    /\ DOMAIN records # {}

\* C14: no step of a borrow or of a return changes a stored field of a book
\* (title, author, total_copies, the 'available' flag); the available_copies
\* of a book changes only in steps that change its set of ACTIVE records.
BorrowReturnKeepBooks ==
    [][/\ \A p \in Procs :
              (\/ pc[p] \in {"b_book", "b_create", "r_set"}
               \/ pc'[p] \in {"b_book", "r_set"}
               \/ out' \in {"member_not_found", "record_not_found",
                            "already_returned"})
                  => books' = books
       /\ \A b \in DOMAIN books \cap DOMAIN books' :
              books'[b].total_copies - Cardinality(ActiveIn(records', b))
                      # AvailableCopies(b)
                  => /\ ActiveIn(records', b) # ActiveIn(records, b)
                     /\ books'[b] = books[b]
      ]_vars

\* a borrow took the last copy of a book and its stored fields are as they
\* were written at creation
LentOutBookAsCreated ==
    /\ out = "borrowed"
    /\ \E b \in DOMAIN books :
           /\ AvailableCopies(b) = 0
           /\ books[b] = [title |-> <<"t">>, author |-> <<"o">>,
                          total_copies |-> 1, available |-> TRUE]

\* C15: the creation of a member whose email does not match the whole
\* pattern ^[^@]+@[^@]+\.[^@]+$ (such as "BAD", or a valid address followed
\* by a second '@') fails with the validation error and stores no member.
MalformedEmailRejected ==
    [][\A i \in MemberInputs :
          LET e == i.email
              whole == \E a \in 1..Len(e) : \E d \in (a + 2)..Len(e) :
                           /\ NoAt(e, 1, a - 1)
                           /\ e[a] = "@"
                           /\ NoAt(e, a + 1, d - 1)
                           /\ e[d] = "."
                           /\ NoAt(e, d + 1, Len(e))
          IN  ~whole
                  => \A p \in Procs :
                         AddMember(p, i.name, i.email)
                             => /\ out' = "invalid_member"
                                /\ members' = members
      ]_vars

\* C16: every stored book has total_copies >= 1 and a title and an author
\* that are trimmed and not empty; the creation of a book with
\* total_copies < 1, or with a title or author that is empty once trimmed,
\* fails with the validation error and stores no book.
StoredBooksValid ==
    /\ [](\A b \in DOMAIN books :
              /\ books[b].total_copies >= 1
              /\ books[b].title # <<>> /\ Strip(books[b].title) = books[b].title
              /\ books[b].author # <<>> /\ Strip(books[b].author) = books[b].author)
    /\ [][out' \in {"book_added", "invalid_book"}
              => \A i \in BookInputs :
                     (i.total_copies < 1 \/ Strip(i.title) = <<>>
                          \/ Strip(i.author) = <<>>)
                         => \A p \in Procs :
                                AddBook(p, i.title, i.author, i.total_copies)
                                    => /\ out' = "invalid_book"
                                       /\ UNCHANGED <<store, keys>>
          ]_vars

\* the creation of a book has just been refused while a book is stored
InvalidBookRefused ==
    /\ out = "invalid_book"
    /\ DOMAIN books # {}

\* C17 as stated: after a creation, the lookup by the title (name, member_id)
\* given at the creation returns the new entity, and its other fields
\* (author; email; book_id) are as given at the creation.
CreateThenFindAsGiven ==
    [][\A p \in Procs :
          /\ out' = "book_added"
                 => \A i \in BookInputs :
                        AddBook(p, i.title, i.author, i.total_copies)
                            => /\ nextBookId \in
                                      FindByAttribute(books', [title |-> i.title])
                               /\ books'[nextBookId].author = i.author
          /\ out' = "member_added"
                 => \A i \in MemberInputs :
                        AddMember(p, i.name, i.email)
                            => /\ nextMemberId \in
                                      FindByAttribute(members', [name |-> i.name])
                               /\ members'[nextMemberId].email = i.email
          /\ (pc[p] = "b_create" /\ out' = "borrowed")
                 => /\ nextRecordId \in
                           FindByAttribute(records',
                                           [member_id |-> session[p].member_id])
                    /\ records'[nextRecordId].book_id = session[p].book_id
      ]_vars

\* C17, amended: after a creation, the lookup by the stored, that is trimmed,
\* title (name) or by the member_id returns the new entity; its other fields
\* are the given ones as the validators store them (author trimmed, email
\* lower-cased and trimmed, total_copies and book_id as given); and
\* find_by_attribute returns exactly the stored entities equal to the
\* criteria on every given field.
CreateThenFindNormalized ==
    [][\A p \in Procs :
          /\ out' = "book_added"
                 => \A i \in BookInputs :
                        AddBook(p, i.title, i.author, i.total_copies)
                            => LET t == Strip(i.title)
                                   a == Strip(i.author)
                               IN  /\ nextBookId \in
                                          FindByAttribute(books', [title |-> t])
                                   /\ books'[nextBookId].author = a
                                   /\ books'[nextBookId].total_copies = i.total_copies
                                   /\ FindByAttribute(books', [title |-> t])
                                          = { b \in DOMAIN books' : books'[b].title = t }
                                   /\ FindByAttribute(books',
                                          [title |-> t, total_copies |-> i.total_copies])
                                          = { b \in DOMAIN books' :
                                                /\ books'[b].title = t
                                                /\ books'[b].total_copies
                                                       = i.total_copies }
                                   /\ FindByAttribute(books', [title |-> i.title])
                                          = { b \in DOMAIN books' :
                                                books'[b].title = i.title }
          /\ out' = "member_added"
                 => \A i \in MemberInputs :
                        AddMember(p, i.name, i.email)
                            => LET n == Strip(i.name)
                               IN  /\ nextMemberId \in
                                          FindByAttribute(members', [name |-> n])
                                   /\ members'[nextMemberId].email
                                          = Strip(Lower(i.email))
                                   /\ FindByAttribute(members', [name |-> n])
                                          = { m \in DOMAIN members' :
                                                members'[m].name = n }
          /\ (pc[p] = "b_create" /\ out' = "borrowed")
                 => LET m == session[p].member_id
                    IN  /\ nextRecordId \in
                               FindByAttribute(records', [member_id |-> m])
                        /\ records'[nextRecordId].book_id = session[p].book_id
                        /\ FindByAttribute(records', [member_id |-> m])
                               = { r \in DOMAIN records' : records'[r].member_id = m }
      ]_vars

\* a second book with the title of the first has just been created, with
\* another number of copies: the lookup by title returns both
TwoBooksOneTitle ==
    /\ out = "book_added"
    /\ \E b1 \in DOMAIN books : \E b2 \in DOMAIN books :
           /\ b1 # b2
           /\ books[b1].title = books[b2].title
           /\ books[b1].total_copies # books[b2].total_copies
           /\ FindByAttribute(books, [title |-> books[b1].title]) = {b1, b2}

\* C18 as stated: a borrow given a member id and a book id that both resolve
\* to nothing reports the book not-found error.
BorrowResolvesBookFirst ==
    [][\A p \in Procs :
          \A m \in MemberIds \ DOMAIN members :
              (BookIds \ DOMAIN books # {} /\ BorrowFindMember(p, m))
                  => out' = "book_not_found"
      ]_vars

\* C18, amended: a borrow resolves the member before the book: given ids
\* that both resolve to nothing it reports the member not-found error, and
\* it reports the book not-found error only once the member has been found.
BorrowResolvesMemberFirst ==
    [][\A p \in Procs :
          /\ \A m \in MemberIds \ DOMAIN members :
                 (BookIds \ DOMAIN books # {} /\ BorrowFindMember(p, m))
                     => out' = "member_not_found"
          /\ (out' = "book_not_found" /\ pc'[p] # pc[p])
                 => /\ pc[p] = "b_book"
                    /\ session[p].member_id \in DOMAIN members
      ]_vars

\* a borrow has just reported that the member is not found while a book id
\* resolves to nothing either, a book and a member being stored
BothAbsentMemberReported ==
    /\ out = "member_not_found"
    /\ DOMAIN books # {} /\ DOMAIN books # BookIds
    /\ DOMAIN members # {} /\ DOMAIN members # MemberIds

\* C19: a successful borrow of book b by member m adds exactly one record;
\* the record has an id no stored record has, is ACTIVE, has borrow_date =
\* the current date and references b and m; available_copies of b goes down
\* by exactly 1; every other record, every other book's available_copies,
\* the books and the members are unchanged.
BorrowAddsOneRecord ==
    [][\A p \in Procs :
          (pc[p] = "b_create" /\ out' = "borrowed")
              => LET b == session[p].book_id
                     m == session[p].member_id
                     new == DOMAIN records' \ DOMAIN records
                 IN  /\ Cardinality(new) = 1
                     /\ DOMAIN records \subseteq DOMAIN records'
                     /\ \A r \in new :
                            records'[r] = [book_id |-> b, member_id |-> m,
                                           borrow_date |-> today,
                                           return_date |-> NoDate]
                     /\ \A r \in DOMAIN records : records'[r] = records[r]
                     /\ b \in DOMAIN books /\ m \in DOMAIN members
                     /\ books' = books /\ members' = members
                     /\ CopiesLeft(records', b) = AvailableCopies(b) - 1
                     /\ \A x \in DOMAIN books \ {b} :
                            CopiesLeft(records', x) = AvailableCopies(x)
      ]_vars

\* the second borrow has just succeeded, on a day other than the first one's
\* and for the same book and member, and both records are ACTIVE
SecondBorrowAnotherDay ==
    /\ out = "borrowed"
    /\ DOMAIN records = {1, 2}
    /\ records[2].borrow_date = today
    /\ records[1].borrow_date # today
    /\ records[1].book_id = records[2].book_id
    /\ records[1].member_id = records[2].member_id
    /\ records[1].return_date = NoDate /\ records[2].return_date = NoDate

\* C20 as stated: a return of a stored ACTIVE record always succeeds.
ReturnOfActiveSucceeds ==
    [][\A p \in Procs :
          (/\ pc[p] = "r_set" /\ pc'[p] = "idle"
           /\ session[p].record_id \in DOMAIN records
           /\ records[session[p].record_id].return_date = NoDate)
              => out' = "returned"
      ]_vars

\* C20, amended: a return of a stored ACTIVE record passes the lookup, and
\* succeeds whenever the current date is not before the record's
\* borrow_date: it sets the record's return_date to the current date, raises
\* available_copies of the record's book by exactly 1 and changes no other
\* record, no book and no member.
ReturnOfActiveClosesRecord ==
    [][\A p \in Procs :
          /\ \A r \in DOMAIN records :
                 (pc[p] = "idle" /\ records[r].return_date = NoDate)
                     => (ReturnFind(p, r)
                             => (pc'[p] = "r_set" /\ UNCHANGED store))
          /\ (/\ pc[p] = "r_set" /\ pc'[p] = "idle"
              /\ session[p].record_id \in DOMAIN records
              /\ records[session[p].record_id].return_date = NoDate
              /\ today >= records[session[p].record_id].borrow_date)
                 => LET r == session[p].record_id
                        b == records[r].book_id
                    IN  /\ out' = "returned"
                        /\ DOMAIN records' = DOMAIN records
                        /\ records'[r] = [records[r] EXCEPT !.return_date = today]
                        /\ \A x \in DOMAIN records \ {r} : records'[x] = records[x]
                        /\ books' = books /\ members' = members
                        /\ CopiesLeft(records', b) = AvailableCopies(b) + 1
                        /\ \A x \in DOMAIN books \ {b} :
                               CopiesLeft(records', x) = AvailableCopies(x)
      ]_vars

\* one of two ACTIVE records has just been returned on the current date and
\* the other one is still ACTIVE
OneOfTwoReturned ==
    /\ out = "returned"
    /\ \E r1 \in DOMAIN records : \E r2 \in DOMAIN records :
           /\ records[r1].return_date = today
           /\ records[r2].return_date = NoDate

\* C21: in every state the available_copies of a stored book, as the code
\* reads it, is total_copies minus the number of stored records of the book
\* with no return_date; the read that a borrow makes decides on the store as
\* it is at that moment, so it reflects every committed borrow, return and
\* record deletion.
AvailableCopiesReadFresh ==
    /\ [](\A b \in DOMAIN books :
              AvailableCopies(b)
                  = books[b].total_copies
                        - Cardinality({ r \in DOMAIN records :
                                          /\ records[r].book_id = b
                                          /\ records[r].return_date = NoDate }))
    /\ [][\A p \in Procs :
              pc[p] = "b_book"
                  => \A b \in DOMAIN books :
                         LET open == { r \in DOMAIN records :
                                         /\ records[r].book_id = b
                                         /\ records[r].return_date = NoDate }
                         IN  BorrowFindBook(p, b)
                                 => /\ (out' = "unavailable")
                                           <=> (Cardinality(open)
                                                    >= books[b].total_copies)
                                    /\ (pc'[p] = "b_create")
                                           <=> (Cardinality(open)
                                                    < books[b].total_copies)
          ]_vars

\* the only copy of the only book ever stored was lent, the record was
\* deleted (no book and no member has been), and the borrow that has just
\* succeeded read the copy as available again
LentAgainAfterRecordDeleted ==
    /\ out = "borrowed"
    /\ nextRecordId = 3 /\ DOMAIN records = {2}
    /\ nextBookId = 2 /\ DOMAIN books = {1}
    /\ nextMemberId = 2 /\ DOMAIN members = {1}
    /\ books[1].total_copies = 1

\* C22: the delete of a record is unguarded: it succeeds on an ACTIVE and on
\* a RETURNED record, removes that record only and leaves its book and its
\* member stored; deleting an ACTIVE record raises its book's
\* available_copies by 1, deleting a RETURNED one leaves it unchanged, and
\* 0 <= available_copies <= total_copies holds for every book throughout.
RecordDeleteUnguarded ==
    /\ [](\A b \in DOMAIN books :
              /\ 0 <= AvailableCopies(b)
              /\ AvailableCopies(b) <= books[b].total_copies)
    /\ [][\A p \in Procs :
              pc[p] = "idle"
                  => \A r \in DOMAIN records :
                         DeleteRecord(p, r)
                             => LET b == records[r].book_id
                                    m == records[r].member_id
                                IN  /\ out' = "record_deleted"
                                    /\ DOMAIN records' = DOMAIN records \ {r}
                                    /\ \A x \in DOMAIN records' :
                                           records'[x] = records[x]
                                    /\ books' = books /\ members' = members
                                    /\ b \in DOMAIN books' /\ m \in DOMAIN members'
                                    /\ CopiesLeft(records', b)
                                           = IF records[r].return_date = NoDate
                                             THEN AvailableCopies(b) + 1
                                             ELSE AvailableCopies(b)
                                    /\ \A x \in DOMAIN books \ {b} :
                                           CopiesLeft(records', x)
                                               = AvailableCopies(x)
          ]_vars

\* both records ever made have been deleted, the second one just now, while
\* the only book and the only member ever stored remain and every copy is
\* available
RecordsCleanedUp ==
    /\ out = "record_deleted"
    /\ nextRecordId = 3 /\ DOMAIN records = {}
    /\ nextBookId = 2 /\ DOMAIN books = {1}
    /\ nextMemberId = 2 /\ DOMAIN members = {1}
    /\ AvailableCopies(1) = books[1].total_copies

\* C23: the delete of a member that passed the guard leaves the
\* available_copies of every book unchanged; the delete of a book that
\* passed the guard leaves the available_copies of every other book and the
\* active_borrows of every member unchanged: only RETURNED records go with
\* the parent.
GuardedDeleteKeepsAvailability ==
    [][\A p \in Procs :
          /\ (pc[p] = "dm_confirm" /\ out' = "member_deleted")
                 => /\ books' = books
                    /\ \A b \in DOMAIN books :
                           CopiesLeft(records', b) = AvailableCopies(b)
                    /\ \A r \in DOMAIN records \ DOMAIN records' :
                           records[r].return_date # NoDate
                    /\ \A m \in DOMAIN members' :
                           { r \in DOMAIN records' :
                               /\ records'[r].member_id = m
                               /\ records'[r].return_date = NoDate }
                               = ActiveOfMember(m)
          /\ (pc[p] = "db_confirm" /\ out' = "book_deleted")
                 => /\ members' = members
                    /\ \A b \in DOMAIN books' :
                           /\ books'[b] = books[b]
                           /\ CopiesLeft(records', b) = AvailableCopies(b)
                    /\ \A r \in DOMAIN records \ DOMAIN records' :
                           records[r].return_date # NoDate
                    /\ \A m \in DOMAIN members :
                           { r \in DOMAIN records' :
                               /\ records'[r].member_id = m
                               /\ records'[r].return_date = NoDate }
                               = ActiveOfMember(m)
      ]_vars

\* a member has just been deleted with its returned record while the other
\* member holds a copy of the same book
MemberGoneLoanKept ==
    /\ out = "member_deleted"
    /\ nextRecordId = 3
    /\ Cardinality(DOMAIN records) = 1
    /\ \E r \in DOMAIN records :
           /\ records[r].return_date = NoDate
           /\ records[r].member_id \in DOMAIN members
           /\ records[r].book_id \in DOMAIN books
           /\ nextBookId = 2

\* C24: for each record at most one return succeeds, also when two returns
\* of the record interleave: the return that writes second gets the
\* already-returned error and the return_date written first stays.
AtMostOneReturnSucceeds ==
    [][\A p \in Procs :
          (/\ pc[p] = "r_set" /\ pc'[p] = "idle"
           /\ session[p].record_id \in DOMAIN records
           /\ records[session[p].record_id].return_date # NoDate)
              => /\ out' = "already_returned"
                 /\ records' = records
      ]_vars

\* C25: the success of a borrow depends only on the member and the book
\* being stored and on available_copies > 0; there is no limit for a member:
\* a member that holds ACTIVE records, also one of the same book, passes
\* each step of the borrow while a copy is available, and each borrow makes
\* a record of its own.
BorrowHasNoMemberLimit ==
    [][\A p \in Procs :
          /\ pc[p] = "idle"
                 => \A m \in DOMAIN members :
                        BorrowFindMember(p, m)
                            => /\ pc'[p] = "b_book"
                               /\ session'[p].member_id = m
          /\ pc[p] = "b_book"
                 => \A b \in DOMAIN books :
                        BorrowFindBook(p, b)
                            => IF AvailableCopies(b) > 0
                               THEN pc'[p] = "b_create" /\ session'[p].book_id = b
                               ELSE out' = "unavailable"
          /\ (/\ pc[p] = "b_create" /\ pc'[p] = "idle"
              /\ session[p].member_id \in DOMAIN members
              /\ session[p].book_id \in DOMAIN books)
                 => /\ out' = "borrowed"
                    /\ Cardinality(DOMAIN records') = Cardinality(DOMAIN records) + 1
                    /\ ActiveOfMember(session[p].member_id)
                           \subseteq { r \in DOMAIN records' :
                                         /\ records'[r].member_id = session[p].member_id
                                         /\ records'[r].return_date = NoDate }
                    /\ Cardinality({ r \in DOMAIN records' :
                                       /\ records'[r].member_id = session[p].member_id
                                       /\ records'[r].return_date = NoDate })
                           = Cardinality(ActiveOfMember(session[p].member_id)) + 1
      ]_vars

\* a member that held a copy of a book has just borrowed a second copy of
\* it: two ACTIVE records of the same member and book
SameBookTwice ==
    /\ out = "borrowed"
    /\ \E r1 \in DOMAIN records : \E r2 \in DOMAIN records :
           /\ r1 # r2
           /\ records[r1].member_id = records[r2].member_id
           /\ records[r1].book_id = records[r2].book_id
           /\ records[r1].return_date = NoDate
           /\ records[r2].return_date = NoDate
           /\ records[r1].member_id \in DOMAIN members

====
